---------------------------- MODULE Spec2Model ----------------------------
(***************************************************************************)
(* rust-coinselect: the five coin-selection algorithms, the fee / waste    *)
(* arithmetic they share, and the threaded dispatcher select_coin.         *)
(*                                                                         *)
(* Conventions of the model                                                *)
(*  - a candidate (OutputGroup) is a record [value, weight, input_count,   *)
(*    creation_sequence]; Option<u32> is <<>> for None and <<n>> for       *)
(*    Some(n);                                                             *)
(*  - the candidate list is a sequence; selected_inputs holds the 0-based  *)
(*    indices of the source (candidate i of the source is inputs[i + 1]);  *)
(*  - a feerate (f32 in the source) is a rational [num, den], den > 0;     *)
(*    ceil() is computed exactly on the rational, and the `as u64` cast of *)
(*    a negative float saturates to 0 as in Rust;                          *)
(*  - Result<T, SelectionError> is a record with an `ok` flag;             *)
(*  - a random choice (coin flip, shuffle, HashSet iteration order) is a   *)
(*    nondeterministic choice: an algorithm that draws random numbers is   *)
(*    the set of the results it can return.                                *)
(***************************************************************************)
EXTENDS Integers, Sequences, FiniteSets, TLC

(***************************************************************************)
(* Program constants                                                       *)
(***************************************************************************)
\* utils.rs: a feerate above this is AbnormallyHighFeeRate
MaxFeeRate == 1000
\* bnb.rs: let mut bnb_tries: u32 = 1_000_000
BnbTries == 1000000
\* knapsack.rs: for _ in 1..=1000
KnapsackTrials == 1000

(***************************************************************************)
(* Generic helpers on sequences                                            *)
(***************************************************************************)
RECURSIVE SumSeq(_)
SumSeq(s) == IF s = <<>> THEN 0 ELSE Head(s) + SumSeq(Tail(s))

Max(a, b) == IF a >= b THEN a ELSE b

\* u64::saturating_sub
SatSub(a, b) == IF a >= b THEN a - b ELSE 0

\* ceil(n / d) for d > 0 and any integer n
CeilDiv(n, d) == IF n >= 0 THEN (n + d - 1) \div d ELSE -((-n) \div d)

Range(s) == {s[i] : i \in DOMAIN s}

\* slice::sort_by_key / sort_by are stable: s ascending by the key of each
\* element (keys[i] is the key of s[i]), ties keep their relative order.
StableSortBy(s, keys) ==
    LET n == Len(s)
        rank(i) == Cardinality({j \in 1..n :
                        \/ keys[j] < keys[i]
                        \/ (keys[j] = keys[i] /\ j < i)}) + 1
    IN  [r \in 1..n |-> s[CHOOSE i \in 1..n : rank(i) = r]]

Reverse(s) == [i \in 1..Len(s) |-> s[Len(s) + 1 - i]]

\* all orderings of a finite set
RECURSIVE Perms(_)
Perms(S) ==
    IF S = {} THEN {<<>>}
    ELSE UNION {{<<x>> \o p : p \in Perms(S \ {x})} : x \in S}

(***************************************************************************)
(* types.rs                                                                *)
(***************************************************************************)
None == <<>>
Some(x) == <<x>>

OutputGroup(v, w, cs) ==
    [value |-> v, weight |-> w, input_count |-> 1, creation_sequence |-> cs]

Rate(n, d) == [num |-> n, den |-> d]

\* Result<SelectionOutput, SelectionError>
OkOut(sel, w) == [ok |-> TRUE, selected_inputs |-> sel, waste |-> w, err |-> "-"]
ErrOut(e) == [ok |-> FALSE, selected_inputs |-> <<>>, waste |-> 0, err |-> e]

\* Result<u64, SelectionError>
OkVal(v) == [ok |-> TRUE, val |-> v, err |-> "-"]
ErrVal(e) == [ok |-> FALSE, val |-> 0, err |-> e]

(***************************************************************************)
(* utils.rs: fee / waste arithmetic                                        *)
(***************************************************************************)
\* variant: the guard `rate < 0.0`, a zero rate is accepted
CalculateFeeZeroRate(weight, rate) ==
    IF rate.num < 0 THEN ErrVal("NonPositiveFeeRate")
    ELSE IF rate.num > MaxFeeRate * rate.den THEN ErrVal("AbnormallyHighFeeRate")
    ELSE OkVal(CeilDiv(weight * rate.num, rate.den))

calculate_fee(weight, rate) ==
    IF rate.num <= 0 THEN ErrVal("NonPositiveFeeRate")
    ELSE IF rate.num > MaxFeeRate * rate.den THEN ErrVal("AbnormallyHighFeeRate")
    ELSE OkVal(CeilDiv(weight * rate.num, rate.den))

\* The algorithms use the fee as a number; the validation error of
\* calculate_fee is handed on to the caller unchanged, as effective_value
\* does with `?`.  FeeCheck is the Result of that first call, Fee the number.
FeeCheck(rate) == calculate_fee(0, rate)
Fee(weight, rate) == calculate_fee(weight, rate).val

\* variant: plain subtraction in place of saturating_sub
EffectiveValueUnsaturated(output, feerate) ==
    LET f == calculate_fee(output.weight, feerate)
    IN  IF f.ok THEN OkVal(output.value - f.val) ELSE f

effective_value(output, feerate) ==
    LET f == calculate_fee(output.weight, feerate)
    IN  IF f.ok THEN OkVal(SatSub(output.value, f.val)) ELSE f

EffVal(output, feerate) == effective_value(output, feerate).val

\* (accumulated_weight as f32 * (target_feerate - long_term_feerate)).ceil() as u64
LongTermTerm(options, accumulated_weight) ==
    IF options.long_term_feerate = None THEN 0
    ELSE LET t == options.target_feerate
             l == options.long_term_feerate[1]
         IN  Max(0, CeilDiv(accumulated_weight * (t.num * l.den - l.num * t.den),
                            t.den * l.den))

\* variant: the excess of lib.rs 671-673, one plain subtraction
\* accumulated_value - (target_value + estimated_fee)
CalculateWasteUnsaturated(options, accumulated_value, accumulated_weight, estimated_fee) ==
    LongTermTerm(options, accumulated_weight)
      + (IF options.excess_strategy # "ToChange"
         THEN accumulated_value - (options.target_value + estimated_fee)
         ELSE options.change_cost)

calculate_waste(options, accumulated_value, accumulated_weight, estimated_fee) ==
    LongTermTerm(options, accumulated_weight)
      + (IF options.excess_strategy # "ToChange"
         THEN SatSub(SatSub(accumulated_value, options.target_value), estimated_fee)
         ELSE options.change_cost)

(***************************************************************************)
(* algorithms/fifo.rs                                                      *)
(***************************************************************************)
\* inputs.iter().enumerate(): the pairs <<index, candidate>>, index 0-based
Enumerate(inputs) == [i \in 1..Len(inputs) |-> <<i - 1, inputs[i]>>]

HasSequence(p) == p[2].creation_sequence # None
HasNoSequence(p) == p[2].creation_sequence = None
SequenceKey(p) == p[2].creation_sequence[1]

\* Mutant: the candidates with a creation_sequence are not sorted.
FifoOrderUnsorted(inputs) ==
    SelectSeq(Enumerate(inputs), HasSequence)
      \o SelectSeq(Enumerate(inputs), HasNoSequence)

\* fifo.rs 18-33: candidates with a creation_sequence, oldest first, then
\* the candidates without one in their original order
FifoOrder(inputs) ==
    LET with == SelectSeq(Enumerate(inputs), HasSequence)
    IN  StableSortBy(with, [k \in 1..Len(with) |-> SequenceKey(with[k])])
          \o SelectSeq(Enumerate(inputs), HasNoSequence)

\* Mutant: the target value is left out of the bound.
FifoBoundNoTarget(options, estimated_fees) ==
    Max(estimated_fees, options.min_absolute_fee) + options.min_change_value

FifoBound(options, estimated_fees) ==
    options.target_value + Max(estimated_fees, options.min_absolute_fee)
      + options.min_change_value

\* fifo.rs 35-47: the accumulation loop from position k of the ordered list
RECURSIVE FifoLoop(_, _, _, _)
FifoLoop(sorted_inputs, options, k, st) ==
    IF k > Len(sorted_inputs) THEN st
    ELSE LET estimated_fees == Fee(st.accumulated_weight, options.target_feerate)
         IN  IF st.accumulated_value >= FifoBound(options, estimated_fees)
             THEN [st EXCEPT !.estimated_fees = estimated_fees]
             ELSE FifoLoop(sorted_inputs, options, k + 1,
                    [accumulated_value |-> st.accumulated_value + sorted_inputs[k][2].value,
                     accumulated_weight |-> st.accumulated_weight + sorted_inputs[k][2].weight,
                     selected_inputs |-> Append(st.selected_inputs, sorted_inputs[k][1]),
                     estimated_fees |-> estimated_fees])

LoopInit == [accumulated_value |-> 0, accumulated_weight |-> 0,
             selected_inputs |-> <<>>, estimated_fees |-> 0]

select_coin_fifo(inputs, options) ==
    IF inputs # <<>> /\ ~FeeCheck(options.target_feerate).ok
    THEN ErrOut(FeeCheck(options.target_feerate).err)
    ELSE LET st == FifoLoop(FifoOrder(inputs), options, 1, LoopInit)
         IN  IF st.accumulated_value < FifoBound(options, st.estimated_fees)
             THEN ErrOut("InsufficientFunds")
             ELSE OkOut(st.selected_inputs,
                        calculate_waste(options, st.accumulated_value,
                                        st.accumulated_weight, st.estimated_fees))

(***************************************************************************)
(* algorithms/lowestlarger.rs                                              *)
(***************************************************************************)
\* Mutant: the loop does not break when the bound is met.
GreedyLoopNoBreak(order, options, target, k, st) ==
    IF k > Len(order) THEN st
    ELSE LET rest == SubSeq(order, k, Len(order))
             w == st.accumulated_weight
                    + SumSeq([i \in 1..Len(rest) |-> rest[i][2].weight])
         IN  [accumulated_value |->
                 st.accumulated_value
                   + SumSeq([i \in 1..Len(rest) |-> rest[i][2].value]),
              accumulated_weight |-> w,
              selected_inputs |->
                 st.selected_inputs \o [i \in 1..Len(rest) |-> rest[i][1]],
              estimated_fees |-> Fee(w, options.target_feerate)]

\* lowestlarger.rs 26-35 and 38-47: add candidates of `order` from position
\* k on until the bound is met; the fee is recomputed after each addition
RECURSIVE GreedyLoop(_, _, _, _, _)
GreedyLoop(order, options, target, k, st) ==
    IF k > Len(order) THEN st
    ELSE LET v == st.accumulated_value + order[k][2].value
             w == st.accumulated_weight + order[k][2].weight
             f == Fee(w, options.target_feerate)
             nx == [accumulated_value |-> v, accumulated_weight |-> w,
                    selected_inputs |-> Append(st.selected_inputs, order[k][1]),
                    estimated_fees |-> f]
         IN  IF v >= target + Max(f, options.min_absolute_fee)
             THEN nx
             ELSE GreedyLoop(order, options, target, k + 1, nx)

\* lowestlarger.rs 19-24: ascending by effective value; the partition point
\* is the number of candidates with value <= target + fee(weight)
LowestLargerSorted(inputs, options) ==
    StableSortBy(Enumerate(inputs),
                 [k \in 1..Len(inputs) |-> EffVal(inputs[k], options.target_feerate)])

PartitionPoint(sorted_inputs, options, target) ==
    Cardinality({i \in 1..Len(sorted_inputs) :
        sorted_inputs[i][2].value
            <= target + Fee(sorted_inputs[i][2].weight, options.target_feerate)})

\* Mutant: the second loop starts over from the first candidate.
LowestLargerRestAll(sorted_inputs, index) == sorted_inputs

\* lowestlarger.rs 38: sorted_inputs.iter().skip(index)
LowestLargerRest(sorted_inputs, index) ==
    SubSeq(sorted_inputs, index + 1, Len(sorted_inputs))

select_coin_lowestlarger(inputs, options) ==
    IF inputs # <<>> /\ ~FeeCheck(options.target_feerate).ok
    THEN ErrOut(FeeCheck(options.target_feerate).err)
    ELSE LET target == options.target_value + options.min_change_value
             sorted_inputs == LowestLargerSorted(inputs, options)
             index == PartitionPoint(sorted_inputs, options, target)
             \* sorted_inputs.iter().take(index).rev()
             st1 == GreedyLoop(Reverse(SubSeq(sorted_inputs, 1, index)),
                               options, target, 1, LoopInit)
             st2 == IF st1.accumulated_value
                         < target + Max(st1.estimated_fees, options.min_absolute_fee)
                    THEN GreedyLoop(LowestLargerRest(sorted_inputs, index),
                                    options, target, 1, st1)
                    ELSE st1
         IN  IF st2.accumulated_value
                  < target + Max(st2.estimated_fees, options.min_absolute_fee)
             THEN ErrOut("InsufficientFunds")
             ELSE OkOut(st2.selected_inputs,
                        calculate_waste(options, st2.accumulated_value,
                                        st2.accumulated_weight, st2.estimated_fees))

(***************************************************************************)
(* algorithms/srd.rs                                                       *)
(***************************************************************************)
\* variant: each order lacks its last pair
ShufflesTruncated(inputs) ==
    {[i \in 1..(Len(inputs) - 1) |-> Enumerate(inputs)[p[i]]]
     : p \in Perms(1..Len(inputs))}

\* srd.rs 16-20: every order the shuffle can produce
Shuffles(inputs) ==
    {[i \in 1..Len(inputs) |-> Enumerate(inputs)[p[i]]] : p \in Perms(1..Len(inputs))}

\* srd.rs 32-69 for one shuffled order
SrdOn(randomized_inputs, options) ==
    LET target == options.target_value + options.min_change_value
        st == GreedyLoop(randomized_inputs, options, target, 1, LoopInit)
    IN  IF st.accumulated_value
             < target + Max(st.estimated_fees, options.min_absolute_fee)
        THEN ErrOut("InsufficientFunds")
        ELSE OkOut(st.selected_inputs,
                   calculate_waste(options, st.accumulated_value,
                                   st.accumulated_weight, st.estimated_fees))

\* the set of results select_coin_srd can return
select_coin_srd(inputs, options) ==
    IF ~FeeCheck(options.target_feerate).ok
    THEN {ErrOut(FeeCheck(options.target_feerate).err)}
    ELSE {SrdOn(r, options) : r \in Shuffles(inputs)}

(***************************************************************************)
(* algorithms/bnb.rs                                                       *)
(***************************************************************************)
\* variant: the speculative push is never taken back
PopNothing(s) == s

\* Vec::pop
Pop(s) == IF s = <<>> THEN s ELSE SubSeq(s, 1, Len(s) - 1)

\* bnb.rs 23-29
MatchParameters(options) ==
    [target_for_match |-> options.target_value
                            + Fee(options.base_weight, options.target_feerate)
                            + options.cost_per_output,
     match_range |-> options.cost_per_input + options.cost_per_output,
     target_feerate |-> options.target_feerate]

\* Mutant: ascending by value.
BnbSortedAscending(inputs) ==
    StableSortBy(Enumerate(inputs), [k \in 1..Len(inputs) |-> inputs[k].value])

\* bnb.rs 31-36: descending by value, ties in their original order
BnbSorted(inputs) ==
    StableSortBy(Enumerate(inputs), [k \in 1..Len(inputs) |-> 0 - inputs[k].value])

\* What one call of bnb leaves behind: its return value (None or Some(path)),
\* the shared path buffer selected_inputs and the shared counter bnb_tries.
BnbRet(ret, sel, tries) == [ret |-> ret, selected_inputs |-> sel, bnb_tries |-> tries]

\* Mutant: the upper end of the match band is not checked.
BnbOverNever(acc_eff_value, mp) == FALSE

\* variant: everything above the match target is cut off, the width of the
\* band is not added
BnbOverTarget(acc_eff_value, mp) == acc_eff_value > mp.target_for_match

\* bnb.rs 84-85: the accumulated effective value is above the match band
BnbOver(acc_eff_value, mp) == acc_eff_value > mp.target_for_match + mp.match_range

\* Mutant: the accumulated value is compared with the width of the band.
BnbMatchRange(acc_eff_value, mp) == acc_eff_value >= mp.match_range

\* bnb.rs 87: the accumulated effective value reached the match target
BnbMatch(acc_eff_value, mp) == acc_eff_value >= mp.target_for_match

\* variant: only the depth stops the expansion, the counter is not tested
BnbCappedByDepth(bnb_tries, depth, len) == depth >= len

\* bnb.rs 92: *bnb_tries == 0 || depth >= inputs_in_desc_value.len()
BnbCapped(bnb_tries, depth, len) == bnb_tries = 0 \/ depth >= len

\* bnb.rs 75-169: the outcomes of one call, over every result of the coin
\* flips of the call and of the calls below it
RECURSIVE bnb(_, _, _, _, _, _)
bnb(inputs_in_desc_value, selected_inputs, acc_eff_value, depth, bnb_tries, mp) ==
    IF BnbOver(acc_eff_value, mp)
    THEN {BnbRet(None, selected_inputs, bnb_tries)}
    ELSE IF BnbMatch(acc_eff_value, mp)
    THEN {BnbRet(Some(selected_inputs), selected_inputs, bnb_tries)}
    ELSE IF BnbCapped(bnb_tries, depth, Len(inputs_in_desc_value))
    THEN {BnbRet(None, selected_inputs, bnb_tries)}
    ELSE
      LET this == inputs_in_desc_value[depth + 1]
          new_effective_value == acc_eff_value + EffVal(this[2], mp.target_feerate)
          \* the call with this candidate pushed, from path s and counter t
          With(s, t) == bnb(inputs_in_desc_value, Append(s, this[1]),
                            new_effective_value, depth + 1, t, mp)
          \* the call without it
          Without(s, t) == bnb(inputs_in_desc_value, s, acc_eff_value,
                               depth + 1, t, mp)
          \* bnb.rs 100-131: gen_bool gave true, include first, then omit
          include_first ==
            UNION {IF o.ret # None THEN {o}
                   ELSE Without(Pop(o.selected_inputs), o.bnb_tries)
                   : o \in With(selected_inputs, bnb_tries - 1)}
          \* bnb.rs 133-167: gen_bool gave false, omit first, then include
          omit_first ==
            UNION {IF o.ret # None THEN {o}
                   ELSE {IF w.ret # None THEN w
                         ELSE BnbRet(None, Pop(w.selected_inputs), w.bnb_tries)
                         : w \in With(o.selected_inputs, o.bnb_tries)}
                   : o \in Without(selected_inputs, bnb_tries - 1)}
      IN  include_first \cup omit_first

ValueOf(inputs, sel) == SumSeq([k \in 1..Len(sel) |-> inputs[sel[k] + 1].value])
WeightOf(inputs, sel) == SumSeq([k \in 1..Len(sel) |-> inputs[sel[k] + 1].weight])

\* Mutant: a search without a match is reported as InsufficientFunds.
BnbNoneInsufficientFunds == ErrOut("InsufficientFunds")

\* bnb.rs 68: None => Err(SelectionError::NoSolutionFound)
BnbNone == ErrOut("NoSolutionFound")

\* bnb.rs 12-70: the set of results select_coin_bnb can return
select_coin_bnb(inputs, options) ==
    IF ~FeeCheck(options.target_feerate).ok
    THEN {ErrOut(FeeCheck(options.target_feerate).err)}
    ELSE {IF o.ret # None
          THEN OkOut(o.ret[1],
                     calculate_waste(options, ValueOf(inputs, o.ret[1]),
                                     WeightOf(inputs, o.ret[1]), 0))
          ELSE BnbNone
          : o \in bnb(BnbSorted(inputs), <<>>, 0, 0, BnbTries,
                      MatchParameters(options))}

(***************************************************************************)
(* algorithms/knapsack.rs                                                  *)
(***************************************************************************)
\* utils.rs 39-50
calculate_accumulated_weight(smaller_coins, selected_inputs) ==
    SumSeq([k \in 1..Len(smaller_coins) |->
              IF smaller_coins[k][1] \in selected_inputs
              THEN smaller_coins[k][3] ELSE 0])

AdjustedTarget(options) ==
    options.target_value + options.min_change_value
      + Fee(options.base_weight, options.target_feerate)

\* Mutant: the candidates are not filtered by value < adjusted_target.
SmallerCoinsUnfiltered(inputs, options) ==
    LET kept == Enumerate(inputs)
        coins == [k \in 1..Len(kept) |->
                    <<kept[k][1], EffVal(kept[k][2], options.target_feerate),
                      kept[k][2].weight>>]
    IN  StableSortBy(coins, [k \in 1..Len(coins) |-> 0 - coins[k][2]])

\* knapsack.rs 18-30: <<index, effective value, weight>> of the candidates
\* with value < adjusted_target, descending by effective value
SmallerCoins(inputs, options) ==
    LET small(p) == p[2].value < AdjustedTarget(options)
        kept == SelectSeq(Enumerate(inputs), small)
        coins == [k \in 1..Len(kept) |->
                    <<kept[k][1], EffVal(kept[k][2], options.target_feerate),
                      kept[k][2].weight>>]
    IN  StableSortBy(coins, [k \in 1..Len(coins) |-> 0 - coins[k][2]])

\* Mutant: the best set is copied after the candidate was removed again.
KnapsackVisitCopyLate(adjusted_target, st, coin, take) ==
    IF st.ret # None \/ ~take THEN st
    ELSE LET sel == st.selected_inputs \cup {coin[1]}
             acc == st.accumulated_value + coin[2]
         IN  IF acc = adjusted_target
             THEN [st EXCEPT !.selected_inputs = sel, !.accumulated_value = acc,
                             !.ret = Some(sel)]
             ELSE IF acc >= adjusted_target
             THEN LET better == st.best_set_value = None \/ acc < st.best_set_value[1]
                  IN  [st EXCEPT !.best_set_value = IF better THEN Some(acc) ELSE @,
                                 !.best_set = IF better THEN sel \ {coin[1]} ELSE @,
                                 !.selected_inputs = sel \ {coin[1]},
                                 !.accumulated_value = acc - coin[2]]
             ELSE [st EXCEPT !.selected_inputs = sel, !.accumulated_value = acc]

\* knapsack.rs 49-76: one visit of a candidate in a pass; `take` is the
\* condition of line 49.  best_set_value is None where the source holds
\* u64::MAX; ret is Some(set) once line 64 returned.
KnapsackVisit(adjusted_target, st, coin, take) ==
    IF st.ret # None \/ ~take THEN st
    ELSE LET sel == st.selected_inputs \cup {coin[1]}
             acc == st.accumulated_value + coin[2]
         IN  IF acc = adjusted_target
             THEN [st EXCEPT !.selected_inputs = sel, !.accumulated_value = acc,
                             !.ret = Some(sel)]
             ELSE IF acc >= adjusted_target
             THEN LET better == st.best_set_value = None \/ acc < st.best_set_value[1]
                  IN  [st EXCEPT !.best_set_value = IF better THEN Some(acc) ELSE @,
                                 !.best_set = IF better THEN sel ELSE @,
                                 !.selected_inputs = sel \ {coin[1]},
                                 !.accumulated_value = acc - coin[2]]
             ELSE [st EXCEPT !.selected_inputs = sel, !.accumulated_value = acc]

\* pass 1 from candidate k on: the states after every result of the tosses
RECURSIVE KnapsackPass1(_, _, _, _)
KnapsackPass1(adjusted_target, smaller_coins, k, st) ==
    IF k > Len(smaller_coins) THEN {st}
    ELSE UNION {KnapsackPass1(adjusted_target, smaller_coins, k + 1,
                    KnapsackVisit(adjusted_target, st, smaller_coins[k], toss_result))
                : toss_result \in BOOLEAN}

\* Mutant: there is no second pass.
KnapsackPass2Skip(adjusted_target, smaller_coins, k, st) == st

\* variant: the `!` of line 49 is missing, pass 2 takes the candidates
\* already selected
RECURSIVE KnapsackPass2Selected(_, _, _, _)
KnapsackPass2Selected(adjusted_target, smaller_coins, k, st) ==
    IF k > Len(smaller_coins) THEN st
    ELSE KnapsackPass2Selected(adjusted_target, smaller_coins, k + 1,
            KnapsackVisit(adjusted_target, st, smaller_coins[k],
                          smaller_coins[k][1] \in st.selected_inputs))

\* pass 2 from candidate k on: every candidate not selected is taken
RECURSIVE KnapsackPass2(_, _, _, _)
KnapsackPass2(adjusted_target, smaller_coins, k, st) ==
    IF k > Len(smaller_coins) THEN st
    ELSE KnapsackPass2(adjusted_target, smaller_coins, k + 1,
            KnapsackVisit(adjusted_target, st, smaller_coins[k],
                          smaller_coins[k][1] \notin st.selected_inputs))

\* knapsack.rs 46-80: one trial started with the best set b of the trials
\* before it
KnapsackTrial(adjusted_target, smaller_coins, b) ==
    {KnapsackPass2(adjusted_target, smaller_coins, 1, s)
     : s \in KnapsackPass1(adjusted_target, smaller_coins, 1,
                [selected_inputs |-> {}, accumulated_value |-> 0,
                 best_set |-> b.best_set, best_set_value |-> b.best_set_value,
                 ret |-> None])}

\* knapsack.rs 45-81: `trials` more trials from the set R of best sets the
\* trials so far can have left; E collects the exact matches returned at
\* line 64.  Once a trial maps R to itself every later trial does.
RECURSIVE KnapsackRun(_, _, _, _, _)
KnapsackRun(adjusted_target, smaller_coins, trials, R, E) ==
    IF trials = 0 THEN [best |-> R, exact |-> E]
    ELSE LET outs == UNION {KnapsackTrial(adjusted_target, smaller_coins, b) : b \in R}
             R2 == {[best_set |-> o.best_set, best_set_value |-> o.best_set_value]
                    : o \in {x \in outs : x.ret = None}}
             E2 == E \cup {[selected_inputs |-> o.selected_inputs,
                            accumulated_value |-> o.accumulated_value]
                           : o \in {x \in outs : x.ret # None}}
         IN  IF R2 = R THEN [best |-> R, exact |-> E2]
             ELSE KnapsackRun(adjusted_target, smaller_coins, trials - 1, R2, E2)

\* Vec from a HashSet: the iteration order is unspecified
SetOrders(S) == Perms(S)

\* knapsack.rs 35-94: the set of results knap_sack can return
knap_sack(adjusted_target, smaller_coins, options) ==
    LET run == KnapsackRun(adjusted_target, smaller_coins, KnapsackTrials,
                           {[best_set |-> {}, best_set_value |-> None]}, {})
        out(set, value) ==
            LET w == calculate_accumulated_weight(smaller_coins, set)
                waste == calculate_waste(options, value, w,
                                         Fee(w, options.target_feerate))
            IN  {OkOut(v, waste) : v \in SetOrders(set)}
    IN  UNION {out(e.selected_inputs, e.accumulated_value) : e \in run.exact}
          \cup UNION {IF b.best_set_value = None
                      THEN {ErrOut("NoSolutionFound")}
                      ELSE out(b.best_set, b.best_set_value[1])
                      : b \in run.best}

\* knapsack.rs 11-33
select_coin_knapsack(inputs, options) ==
    IF ~FeeCheck(options.target_feerate).ok
    THEN {ErrOut(FeeCheck(options.target_feerate).err)}
    ELSE knap_sack(AdjustedTarget(options), SmallerCoins(inputs, options), options)

(***************************************************************************)
(* selectcoin.rs: the dispatcher                                           *)
(***************************************************************************)
\* selectcoin.rs 20-26: the algorithms, one thread each, in spawn order
Algorithms == <<"bnb", "fifo", "lowestlarger", "srd", "knapsack">>
Threads == 1..Len(Algorithms)

\* what `algorithm(&inputs_clone, options_clone)` can return in thread i
AlgorithmResults(i, ins, opts) ==
    CASE Algorithms[i] = "bnb" -> select_coin_bnb(ins, opts)
      [] Algorithms[i] = "fifo" -> {select_coin_fifo(ins, opts)}
      [] Algorithms[i] = "lowestlarger" -> {select_coin_lowestlarger(ins, opts)}
      [] Algorithms[i] = "srd" -> select_coin_srd(ins, opts)
      [] Algorithms[i] = "knapsack" -> select_coin_knapsack(ins, opts)

\* selectcoin.rs 28-31
SharedStateInit == [result |-> ErrOut("NoSolutionFound"), any_success |-> FALSE]

\* Mutant: the waste of the current record is not compared.
ReplacesAlways(selection_output, current) == TRUE

\* variant: `<=` in place of `<`, a selection of equal waste replaces
ReplacesOnTie(selection_output, current) ==
    IF current.ok THEN selection_output.waste <= current.waste ELSE TRUE

\* selectcoin.rs 42-45: does the new selection replace the current record
Replaces(selection_output, current) ==
    IF current.ok THEN selection_output.waste < current.waste ELSE TRUE

\* selectcoin.rs 41-49
RecordOk(state, selection_output) ==
    IF Replaces(selection_output, state.result)
    THEN [result |-> selection_output, any_success |-> TRUE]
    ELSE state

\* Mutant: every error is recorded as InsufficientFunds.
RecordErrAny(state, e) ==
    IF ~state.any_success
    THEN [state EXCEPT !.result = ErrOut("InsufficientFunds")]
    ELSE state

\* Mutant: any_success is not consulted.
RecordErrUnguarded(state, e) ==
    IF e = "InsufficientFunds"
    THEN [state EXCEPT !.result = ErrOut("InsufficientFunds")]
    ELSE state

\* selectcoin.rs 50-55
RecordErr(state, e) ==
    IF e = "InsufficientFunds" /\ ~state.any_success
    THEN [state EXCEPT !.result = ErrOut("InsufficientFunds")]
    ELSE state

\* selectcoin.rs 40-56: the match on the thread's result, under the lock
Record(state, r) == IF r.ok THEN RecordOk(state, r) ELSE RecordErr(state, r.err)

\* Mutant: the last handle is not joined.
AllJoinedButLast(n) == n >= Len(Algorithms) - 1

\* selectcoin.rs 61-63: main may pass the join loop
AllJoined(n) == n = Len(Algorithms)

VARIABLES
    inputs,        \* the candidate list of the call
    options,       \* the CoinSelectionOpt of the call
    can_return,    \* can_return[i]: the results algorithm i can return on them
    spawned,       \* number of threads main has spawned
    pc,            \* pc[i]: "idle", "run", "lock", "update" or "done"
    result,        \* result[i]: the local `result` of thread i
    mutex,         \* 0, or the thread that holds the lock of best_result
    best_result,   \* the SharedState behind the mutex
    joined,        \* number of handles main has joined
    returned,      \* has select_coin returned
    ret,           \* the value select_coin returned
    out            \* result of a direct call of one algorithm: <<name, result>>

vars == <<inputs, options, can_return, spawned, pc, result, mutex, best_result,
          joined, returned, ret, out>>

Pending == ErrOut("pending")

DispatcherInit ==
    /\ spawned = 0
    /\ pc = [i \in Threads |-> "idle"]
    /\ result = [i \in Threads |-> Pending]
    /\ mutex = 0
    /\ best_result = SharedStateInit
    /\ joined = 0
    /\ returned = FALSE
    /\ ret = Pending

\* selectcoin.rs 33-59: main spawns the next thread
Spawn ==
    /\ spawned < Len(Algorithms)
    /\ spawned' = spawned + 1
    /\ pc' = [pc EXCEPT ![spawned + 1] = "run"]
    /\ UNCHANGED <<inputs, options, can_return, result, mutex, best_result,
                   joined, returned, ret, out>>

\* selectcoin.rs 38: thread i runs its algorithm on its copy of the inputs
Run(i) ==
    /\ pc[i] = "run"
    /\ \E r \in can_return[i] : result' = [result EXCEPT ![i] = r]
    /\ pc' = [pc EXCEPT ![i] = "lock"]
    /\ UNCHANGED <<inputs, options, can_return, spawned, mutex, best_result,
                   joined, returned, ret, out>>

\* selectcoin.rs 39: thread i takes the lock
Lock(i) ==
    /\ pc[i] = "lock"
    /\ mutex = 0
    /\ mutex' = i
    /\ pc' = [pc EXCEPT ![i] = "update"]
    /\ UNCHANGED <<inputs, options, can_return, spawned, result, best_result,
                   joined, returned, ret, out>>

\* selectcoin.rs 40-57: thread i updates the record and drops the guard
Update(i) ==
    /\ pc[i] = "update"
    /\ mutex = i
    /\ best_result' = Record(best_result, result[i])
    /\ mutex' = 0
    /\ pc' = [pc EXCEPT ![i] = "done"]
    /\ UNCHANGED <<inputs, options, can_return, spawned, result,
                   joined, returned, ret, out>>

\* selectcoin.rs 61-63: main joins the next handle, in spawn order
Join ==
    /\ spawned = Len(Algorithms)
    /\ joined < Len(Algorithms)
    /\ pc[joined + 1] = "done"
    /\ joined' = joined + 1
    /\ UNCHANGED <<inputs, options, can_return, spawned, pc, result, mutex,
                   best_result, returned, ret, out>>

\* selectcoin.rs 65-69: main takes the result out of the shared state
Return ==
    /\ ~returned
    /\ spawned = Len(Algorithms)
    /\ AllJoined(joined)
    /\ returned' = TRUE
    /\ ret' = best_result.result
    /\ UNCHANGED <<inputs, options, can_return, spawned, pc, result, mutex,
                   best_result, joined, out>>

(***************************************************************************)
(* The calls that are checked                                              *)
(***************************************************************************)
\* longest candidate list drawn from the pool for a direct call
MaxInputs == 3
\* longest candidate list drawn from the pool for a call of select_coin
MaxDispatcherInputs == 2

\* the candidates of setup_basic_output_groups (selectcoin.rs 80-101)
Pool == {OutputGroup(1000, 100, None), OutputGroup(2000, 200, None),
         OutputGroup(3000, 300, None)}

SeqsUpTo(S, n) == UNION {[1..k -> S] : k \in 0..n}

\* setup_options (selectcoin.rs 103-117, bnb.rs 201-215) with the fields
\* that vary between the calls
Opt(target_value, target_feerate, min_change_value, excess_strategy) ==
    [target_value |-> target_value,
     target_feerate |-> target_feerate,
     long_term_feerate |-> None,
     min_absolute_fee |-> 0,
     base_weight |-> 10,
     change_weight |-> 50,
     change_cost |-> 10,
     cost_per_input |-> 20,
     cost_per_output |-> 10,
     min_change_value |-> min_change_value,
     excess_strategy |-> excess_strategy]

\* setup_basic_output_groups (selectcoin.rs 80-101)
BasicInputs ==
    <<OutputGroup(1000, 100, None), OutputGroup(2000, 200, None),
      OutputGroup(3000, 300, None)>>

DispatcherInputs == SeqsUpTo(Pool, MaxDispatcherInputs) \cup {BasicInputs}

DispatcherOptions ==
    {Opt(920, Rate(1, 2), 50, "ToFee"),
     Opt(1500, Rate(1, 2), 500, "ToFee"),
     Opt(2820, Rate(1, 2), 0, "ToFee"),
     Opt(7000, Rate(1, 2), 0, "ToFee"),
     Opt(920, Rate(0, 1), 50, "ToFee"),
     Opt(7000, Rate(0, 1), 0, "ToFee"),
     Opt(920, Rate(1001, 1), 50, "ToFee")}

Init ==
    /\ inputs \in DispatcherInputs
    /\ options \in DispatcherOptions
    /\ can_return = [i \in Threads |-> AlgorithmResults(i, inputs, options)]
    /\ DispatcherInit
    /\ out = <<"-", Pending>>

Next ==
    \/ Spawn
    \/ \E i \in Threads : Run(i)
    \/ \E i \in Threads : Lock(i)
    \/ \E i \in Threads : Update(i)
    \/ Join
    \/ Return

Spec == Init /\ [][Next]_vars

(***************************************************************************)
(* Direct calls of one algorithm                                           *)
(***************************************************************************)
\* a candidate worth less than the fee of spending it, beside the pool
AlgoPool == Pool \cup {OutputGroup(40, 100, None)}

\* the candidates of test_bnb_solution (bnb.rs 217-265)
BnbSolutionInputs ==
    <<OutputGroup(55000, 500, None), OutputGroup(400, 200, None),
      OutputGroup(40000, 300, None), OutputGroup(25000, 100, None),
      OutputGroup(35000, 150, None), OutputGroup(600, 250, None),
      OutputGroup(30000, 120, None), OutputGroup(5000, 50, None)>>

\* bnb_setup_options(5730) (bnb.rs 201-215, 268)
BnbSolutionOptions ==
    [Opt(5730, Rate(1, 2), 500, "ToChange") EXCEPT !.long_term_feerate = None]

\* const CENT (knapsack.rs 105)
CENT == 1000000

\* knapsack_setup_options (knapsack.rs 110-128)
knapsack_setup_options(adjusted_target, target_feerate) ==
    [Opt(adjusted_target - 500 - Fee(10, target_feerate), target_feerate,
         500, "ToChange") EXCEPT !.long_term_feerate = Some(Rate(2, 5))]

\* knapsack_setup_output_groups (knapsack.rs 130-148): the value of each
\* candidate is the wanted effective value plus the fee of its weight
knapsack_setup_output_groups(value, weights, target_feerate) ==
    [k \in 1..Len(value) |->
        OutputGroup(value[k] + Fee(weights[k], target_feerate), weights[k], None)]

\* knapsack_test_vectors (knapsack.rs 178-206): 2 and 1 CENT, then 5, 10
\* and 20 CENT added, at feerate 0.56
KnapsackTwoInputs ==
    knapsack_setup_output_groups(<<2 * CENT, CENT>>, <<130, 100>>, Rate(14, 25))
KnapsackFiveInputs ==
    KnapsackTwoInputs
      \o knapsack_setup_output_groups(<<5 * CENT, 10 * CENT, 20 * CENT>>,
                                      <<100, 10, 50>>, Rate(14, 25))

\* the calls of knapsack_test_vectors on them (knapsack.rs 184, 207, 218)
KnapsackVectors ==
    {<<KnapsackTwoInputs, knapsack_setup_options(3 * CENT, Rate(14, 25))>>,
     <<KnapsackFiveInputs, knapsack_setup_options(37 * CENT, Rate(14, 25))>>,
     <<KnapsackFiveInputs, knapsack_setup_options(38 * CENT, Rate(14, 25))>>}

\* the candidates of test_fifo_with_none_and_sequence (lib.rs 1480-1516)
\* with the creation sequences cs
FifoInputs(cs) ==
    <<OutputGroup(1000, 100, cs[1]), OutputGroup(2000, 200, cs[2]),
      OutputGroup(3000, 300, cs[3]), OutputGroup(1500, 150, cs[4]),
      OutputGroup(2500, 250, cs[5])>>

\* the sequences of the test, and sequences with a tie
FifoSequences ==
    {<<Some(1), None, Some(0), None, Some(5)>>,
     <<Some(1), None, Some(1), Some(0), Some(1)>>,
     <<None, None, None, None, None>>}

\* the options of test_fifo_with_none_and_sequence (lib.rs 1518-1530)
FifoOptions(target_value) ==
    [target_value |-> target_value,
     target_feerate |-> Rate(1, 10),
     long_term_feerate |-> None,
     min_absolute_fee |-> 10,
     base_weight |-> 100,
     change_weight |-> 50,
     change_cost |-> 0,
     cost_per_input |-> 10,
     cost_per_output |-> 5,
     min_change_value |-> 0,
     excess_strategy |-> "ToFee"]

FifoTargets == {900, 3500, 4500, 9000, 11000}

AlgoOptions ==
    {Opt(t, r, m, s) : t \in {0, 920, 1500, 1895, 2820, 7000},
                       r \in {Rate(1, 2), Rate(2, 5), Rate(0, 1), Rate(1001, 1)},
                       m \in {0, 500},
                       s \in {"ToFee", "ToChange"}}

\* a call with nothing to pay and no fixed overhead: target_value,
\* min_change_value and base_weight are u64 fields and may all be 0
ZeroOverheadOptions ==
    {[Opt(0, Rate(1, 2), 0, s) EXCEPT !.base_weight = 0] : s \in {"ToFee", "ToChange"}}

InitAlgo ==
    /\ \/ inputs \in SeqsUpTo(AlgoPool, MaxInputs) /\ options \in AlgoOptions
       \/ inputs \in SeqsUpTo(AlgoPool, 1) /\ options \in ZeroOverheadOptions
       \/ inputs = BnbSolutionInputs /\ options = BnbSolutionOptions
       \/ \E v \in KnapsackVectors : inputs = v[1] /\ options = v[2]
       \/ \E cs \in FifoSequences, t \in FifoTargets :
             inputs = FifoInputs(cs) /\ options = FifoOptions(t)
    /\ can_return = [i \in Threads |-> {}]
    /\ DispatcherInit
    /\ out = <<"-", Pending>>

\* one call of algorithm i on the candidates and options of the state
Call(i) ==
    /\ out[1] = "-"
    /\ \E r \in AlgorithmResults(i, inputs, options) : out' = <<Algorithms[i], r>>
    /\ UNCHANGED <<inputs, options, can_return, spawned, pc, result, mutex,
                   best_result, joined, returned, ret>>

NextAlgo == \E i \in Threads : Call(i)

SpecAlgo == InitAlgo /\ [][NextAlgo]_vars

(***************************************************************************)
(* Properties of the dispatcher (specification Spec)                       *)
(***************************************************************************)
\* thread i has computed its result
HasRun(i) == pc[i] \in {"lock", "update", "done"}

\* the threads whose algorithm succeeded in this call
Succeeded == {i \in Threads : HasRun(i) /\ result[i].ok}

SumValues(ins) == SumSeq([k \in 1..Len(ins) |-> ins[k].value])

\* C1: when select_coin returns Ok, the waste it returns is <= the waste of
\* every algorithm result that was Ok in the same call, whatever the order
\* in which the five threads ran and took the lock.
C1_DispatcherOptimality ==
    (returned /\ ret.ok) => \A i \in Succeeded : ret.waste <= result[i].waste

\* C1 witness: select_coin returned Ok and another algorithm of the call
\* succeeded with a strictly higher waste.
C1_Witness ==
    /\ returned /\ ret.ok
    /\ \E i \in Succeeded : result[i].waste > ret.waste

\* C2: once a thread has recorded a success the shared result is Ok and
\* stays Ok (an InsufficientFunds or NoSolutionFound recorded later does not
\* overwrite it), and select_coin returns Ok whenever an algorithm succeeded.
C2_SuccessNeverLost ==
    /\ (\E i \in Threads : pc[i] = "done" /\ result[i].ok)
          => (best_result.result.ok /\ best_result.any_success)
    /\ (returned /\ Succeeded # {}) => ret.ok

\* C2 witness: a thread holds the lock with InsufficientFunds to record
\* while a success is already in the shared state.
C2_Witness ==
    \E i \in Threads :
        /\ pc[i] = "update" /\ mutex = i
        /\ ~result[i].ok /\ result[i].err = "InsufficientFunds"
        /\ best_result.any_success /\ best_result.result.ok

\* the errors the algorithms of this call reported
Reported == {result[i].err : i \in {j \in Threads : HasRun(j) /\ ~result[j].ok}}

ValidFeeRate(opts) == FeeCheck(opts.target_feerate).ok

C4_NoShortCircuit ==
    returned => /\ \A i \in Threads : pc[i] = "done"
                /\ mutex = 0
                /\ ret = best_result.result

\* C4 witness: select_coin returned a success that is not the first
\* algorithm's, with at least two algorithms successful.
C4_Witness ==
    /\ returned /\ ret.ok
    /\ Cardinality(Succeeded) >= 2
    /\ \E i \in Succeeded : result[i] # ret

\* C5: with target_feerate <= 0 or > 1000 select_coin returns the fee
\* validation error (NonPositiveFeeRate, AbnormallyHighFeeRate).
C5_FeeRateErrorIsReturned ==
    (returned /\ ~ValidFeeRate(options)) =>
        ret = ErrOut(FeeCheck(options.target_feerate).err)

\* the indices of a successful result r are indices of ins, each once
ValidIndices(r, ins) ==
    r.ok => /\ \A k \in 1..Len(r.selected_inputs) :
                  r.selected_inputs[k] \in 0..(Len(ins) - 1)
            /\ \A k, l \in 1..Len(r.selected_inputs) :
                  k # l => r.selected_inputs[k] # r.selected_inputs[l]

\* C6: every index in the selected_inputs of a successful result of each of
\* the five algorithms and of select_coin is < candidates.len(), and no
\* index appears twice.
C6_IndexValidity ==
    /\ \A i \in Threads : HasRun(i) => ValidIndices(result[i], inputs)
    /\ returned => ValidIndices(ret, inputs)

\* C6 witness: select_coin returned a selection of at least two candidates
\* in a call where BNB and Knapsack succeeded too.
C6_Witness ==
    /\ returned /\ ret.ok /\ Len(ret.selected_inputs) >= 2
    /\ \A i \in Threads : Algorithms[i] \in {"bnb", "knapsack"} => result[i].ok

\* C7: if the values of all candidates sum below target_value, each of the
\* five algorithms returns an error, and so does select_coin.
C7_InsufficientFundsMonotonicity ==
    SumValues(inputs) < options.target_value =>
        /\ \A i \in Threads : HasRun(i) => ~result[i].ok
        /\ returned => ~ret.ok

\* C7 witness: select_coin returned an error for a non-empty candidate list
\* worth less than the target, at a valid feerate.
C7_Witness ==
    /\ returned /\ ~ret.ok
    /\ inputs # <<>> /\ SumValues(inputs) < options.target_value
    /\ ValidFeeRate(options)

(***************************************************************************)
(* Properties of the algorithms (specification SpecAlgo)                   *)
(***************************************************************************)
Called(name) == out[1] = name

InsufficientScenario ==
    /\ inputs = BasicInputs
    /\ options.target_value = 7000
    /\ ValidFeeRate(options)

EffectiveSum(ins, opts, sel) ==
    SumSeq([k \in 1..Len(sel) |-> EffVal(ins[sel[k] + 1], opts.target_feerate)])

\* C9: whenever select_coin_bnb returns Ok, the effective values of the
\* selected candidates sum into [T, T + cost_per_input + cost_per_output],
\* T = target_value + fee(base_weight, target_feerate) + cost_per_output,
\* for every sequence of coin flips.
C9_BnbMatchBand ==
    (Called("bnb") /\ out[2].ok) =>
        LET T == options.target_value
                   + Fee(options.base_weight, options.target_feerate)
                   + options.cost_per_output
            sum == EffectiveSum(inputs, options, out[2].selected_inputs)
        IN  /\ T <= sum
            /\ sum <= T + options.cost_per_input + options.cost_per_output

\* C9 witness: BNB returned two or more candidates whose effective values
\* sum strictly inside the band.
C9_Witness ==
    /\ Called("bnb") /\ out[2].ok
    /\ Len(out[2].selected_inputs) >= 2
    /\ EffectiveSum(inputs, options, out[2].selected_inputs)
         > options.target_value
             + Fee(options.base_weight, options.target_feerate)
             + options.cost_per_output

\* C10: for the eight candidates of test_bnb_solution, target_value 5730,
\* feerate 0.5, base_weight 10, cost_per_input 20, cost_per_output 10,
\* select_coin_bnb returns Ok with selected_inputs = [7, 5, 1] under every
\* outcome of the coin flips.
C10_BnbSolution ==
    (inputs = BnbSolutionInputs /\ options = BnbSolutionOptions /\ Called("bnb"))
        => (out[2].ok /\ out[2].selected_inputs = <<7, 5, 1>>)

\* C10 witness: BNB was called on the eight candidates and returned.
C10_Witness ==
    /\ inputs = BnbSolutionInputs /\ options = BnbSolutionOptions
    /\ Called("bnb") /\ out[2].ok /\ Len(out[2].selected_inputs) = 3

\* sum of the effective values of the candidates at the positions S
EffectiveSumOver(ins, opts, S) ==
    SumSeq([k \in 1..Len(ins) |->
              IF k \in S THEN EffVal(ins[k], opts.target_feerate) ELSE 0])

\* the sets of positions whose effective values sum into the match band
BandSubsets(ins, opts) ==
    LET T == opts.target_value + Fee(opts.base_weight, opts.target_feerate)
               + opts.cost_per_output
    IN  {S \in SUBSET (1..Len(ins)) :
            /\ T <= EffectiveSumOver(ins, opts, S)
            /\ EffectiveSumOver(ins, opts, S)
                 <= T + opts.cost_per_input + opts.cost_per_output}

\* C11: select_coin_bnb never returns InsufficientFunds, and whenever no
\* subset of the candidates has its effective values summing into the match
\* band (the effective values being defined, i.e. the feerate valid) -
\* also when all values together are below the target - it returns
\* NoSolutionFound.
C11_BnbFailureKind ==
    Called("bnb") =>
        /\ out[2].err # "InsufficientFunds"
        /\ (ValidFeeRate(options) /\ BandSubsets(inputs, options) = {})
              => out[2] = ErrOut("NoSolutionFound")

\* C11 witness: BNB returned NoSolutionFound for candidates worth more than
\* the target, none of whose subsets falls into the band.
C11_Witness ==
    /\ Called("bnb") /\ ValidFeeRate(options)
    /\ inputs # <<>> /\ SumValues(inputs) >= options.target_value
    /\ BandSubsets(inputs, options) = {}
    /\ out[2] = ErrOut("NoSolutionFound")

\* candidate a (0-based) comes before candidate b in the order of the
\* claim: sequenced candidates ascending by sequence number, equal numbers
\* by position, then the candidates without a sequence by position
FifoBefore(ins, a, b) ==
    LET ca == ins[a + 1].creation_sequence
        cb == ins[b + 1].creation_sequence
    IN  IF ca # None /\ cb # None
        THEN ca[1] < cb[1] \/ (ca[1] = cb[1] /\ a < b)
        ELSE IF ca # None THEN TRUE
        ELSE IF cb # None THEN FALSE
        ELSE a < b

FifoTestInputs == FifoInputs(<<Some(1), None, Some(0), None, Some(5)>>)

\* C12: a successful select_coin_fifo result is a prefix of the candidates
\* ordered by creation_sequence (ascending, ties by position) followed by
\* the candidates without one in their original order; the sequences
\* [Some(1), None, Some(0), None, Some(5)] with target 4500 give [2, 0, 4].
C12_FifoOrder ==
    Called("fifo") =>
        LET sel == out[2].selected_inputs
        IN  /\ out[2].ok =>
                /\ \A k, l \in 1..Len(sel) :
                      k < l => FifoBefore(inputs, sel[k], sel[l])
                /\ \A k \in 1..Len(sel), u \in 0..(Len(inputs) - 1) :
                      u \notin Range(sel) => FifoBefore(inputs, sel[k], u)
            /\ (inputs = FifoTestInputs /\ options = FifoOptions(4500))
                  => (out[2].ok /\ sel = <<2, 0, 4>>)

\* C12 witness: FIFO returned three candidates out of five, sequenced
\* candidates among them and a candidate without a sequence left out.
C12_Witness ==
    /\ Called("fifo") /\ out[2].ok
    /\ Len(inputs) = 5 /\ Len(out[2].selected_inputs) = 3
    /\ \E k \in 1..Len(inputs) : inputs[k].creation_sequence # None
    /\ \E k \in 1..Len(inputs) : inputs[k].creation_sequence = None

\* sums of value and weight over a list of 0-based indices
SelectedValue(ins, sel) == SumSeq([k \in 1..Len(sel) |-> ins[sel[k] + 1].value])
SelectedWeight(ins, sel) == SumSeq([k \in 1..Len(sel) |-> ins[sel[k] + 1].weight])

\* the bound of FIFO and SRD for the candidates sel:
\* target_value + max(fee(W, target_feerate), min_absolute_fee) + min_change_value
SufficiencyBound(ins, opts, sel) ==
    opts.target_value
      + Max(Fee(SelectedWeight(ins, sel), opts.target_feerate), opts.min_absolute_fee)
      + opts.min_change_value

\* C13: whenever select_coin_fifo returns Ok, with V and W the sums of value
\* and weight over selected_inputs, V >= target_value
\* + max(fee(W, target_feerate), min_absolute_fee) + min_change_value, also
\* when the last candidate of the ordered list had to be taken.
C13_FifoSufficiency ==
    (Called("fifo") /\ out[2].ok) =>
        SelectedValue(inputs, out[2].selected_inputs)
            >= SufficiencyBound(inputs, options, out[2].selected_inputs)

\* SRD sufficiency of the result r: a non-empty selection that meets the
\* bound, none of whose proper prefixes (the empty one included) meets it
SrdSufficient(ins, opts, r) ==
    LET sel == r.selected_inputs
    IN  /\ sel # <<>>
        /\ SelectedValue(ins, sel) >= SufficiencyBound(ins, opts, sel)
        /\ \A k \in 0..(Len(sel) - 1) :
              SelectedValue(ins, SubSeq(sel, 1, k))
                 < SufficiencyBound(ins, opts, SubSeq(sel, 1, k))

LargeEnough(ins, opts) ==
    {i \in 0..(Len(ins) - 1) :
        ins[i + 1].value > opts.target_value + opts.min_change_value
                             + Fee(ins[i + 1].weight, opts.target_feerate)}

\* C16: whenever at least one candidate is large enough, the first index of
\* a select_coin_lowestlarger result is the large-enough candidate with the
\* smallest effective value, and with min_absolute_fee = 0 the result is
\* that single candidate.  Stated here for a positive target_value only.
C16_LowestLargerFirst ==
    (/\ Called("lowestlarger") /\ out[2].ok
     /\ options.target_value > 0
     /\ LargeEnough(inputs, options) # {}) =>
        LET sel == out[2].selected_inputs
        IN  /\ sel # <<>>
            /\ sel[1] \in LargeEnough(inputs, options)
            /\ \A j \in LargeEnough(inputs, options) :
                  EffVal(inputs[sel[1] + 1], options.target_feerate)
                     <= EffVal(inputs[j + 1], options.target_feerate)
            /\ options.min_absolute_fee = 0 => Len(sel) = 1

\* C17: with the two candidates of effective value 2 and 1 CENT and an
\* adjusted target of 3 CENT select_coin_knapsack returns Ok with exactly
\* the candidates 0 and 1, under every sequence of coin flips.
C17_KnapsackTwoCoins ==
    (/\ Called("knapsack")
     /\ inputs = KnapsackTwoInputs
     /\ options = knapsack_setup_options(3 * CENT, Rate(14, 25)))
        => /\ out[2].ok
           /\ Len(out[2].selected_inputs) = 2
           /\ Range(out[2].selected_inputs) = {0, 1}

\* C17 witness: Knapsack was called on the two candidates, whose effective
\* values are 2 and 1 CENT, and returned Ok.
C17_Witness ==
    /\ Called("knapsack") /\ out[2].ok
    /\ inputs = KnapsackTwoInputs
    /\ AdjustedTarget(options) = 3 * CENT
    /\ EffVal(inputs[1], options.target_feerate) = 2 * CENT
    /\ EffVal(inputs[2], options.target_feerate) = CENT

\* positions of the candidates Knapsack keeps: value < adjusted_target
FilteredPositions(ins, opts) ==
    {k \in 1..Len(ins) : ins[k].value < AdjustedTarget(opts)}

\* the non-empty sets of kept candidates whose effective values sum to
\* adjusted_target
ExactSubsets(ins, opts) ==
    {S \in SUBSET FilteredPositions(ins, opts) :
        S # {} /\ EffectiveSumOver(ins, opts, S) = AdjustedTarget(opts)}

KnapsackFive37 ==
    /\ inputs = KnapsackFiveInputs
    /\ options = knapsack_setup_options(37 * CENT, Rate(14, 25))

C19_KnapsackSufficiency ==
    (Called("knapsack") /\ out[2].ok) =>
        SelectedValue(inputs, out[2].selected_inputs)
            >= options.target_value
                 + Fee(SelectedWeight(inputs, out[2].selected_inputs),
                       options.target_feerate)

\* C20: if the effective values of all filtered candidates (those with
\* value < adjusted_target) sum to less than adjusted_target - in
\* particular for an empty candidate list - select_coin_knapsack returns
\* NoSolutionFound, for every sequence of coin flips.  (The effective values
\* and adjusted_target are defined for a valid feerate.)
C20_KnapsackFailure ==
    (/\ Called("knapsack") /\ ValidFeeRate(options)
     /\ EffectiveSumOver(inputs, options, FilteredPositions(inputs, options))
           < AdjustedTarget(options))
        => out[2] = ErrOut("NoSolutionFound")

\* C20 witness: Knapsack returned NoSolutionFound for a list with filtered
\* candidates worth less than adjusted_target beside a candidate that alone
\* is worth more than adjusted_target.
C20_Witness ==
    /\ Called("knapsack") /\ ValidFeeRate(options)
    /\ FilteredPositions(inputs, options) # {}
    /\ FilteredPositions(inputs, options) # 1..Len(inputs)
    /\ EffectiveSumOver(inputs, options, FilteredPositions(inputs, options))
          < AdjustedTarget(options)
    /\ out[2] = ErrOut("NoSolutionFound")

(***************************************************************************)
(* Direct calls of the functions of utils.rs (specification SpecUtils).    *)
(* The candidate of the call is inputs[1], the fee rate is                 *)
(* options.target_feerate; out holds the function called, its result and,  *)
(* for calculate_waste, the estimated_fee argument.  A rate is a rational  *)
(* num/den, so ceil is exact; the rounding of f32 products is not          *)
(* represented.                                                            *)
(***************************************************************************)
\* the rates of test_calculate_fee and test_effective_value (utils.rs
\* 139-160, 197-253), the rate of setup_options, and the rates at and
\* around both limits of calculate_fee
UtilRates ==
    {Rate(-5, 1), Rate(-1, 1), Rate(0, 1), Rate(3, 10), Rate(2, 5), Rate(1, 2),
     Rate(1, 1), Rate(5, 1), Rate(1000, 1), Rate(2001, 2), Rate(1001, 1),
     Rate(2000, 1)}

\* the candidates of test_effective_value (100/101, 100/99) and the
\* accumulated value and weight of test_calculate_waste (1000/50, 200/50),
\* and the weight 60 of test_calculate_fee
UtilCandidates ==
    {OutputGroup(v, w, None) : v \in {0, 100, 200, 1000},
                               w \in {0, 10, 50, 60, 99, 101}}

\* setup_options(100) and its variants in test_calculate_waste (utils.rs
\* 292-325): both targets, every excess strategy, long_term_feerate absent,
\* equal to, above and below the target fee rate
UtilOptions ==
    {[Opt(t, r, 500, s) EXCEPT !.long_term_feerate = l] :
        t \in {100, 1000},
        r \in UtilRates,
        l \in {None, Some(Rate(2, 5)), Some(Rate(1, 2)), Some(Rate(3, 10))},
        s \in {"ToFee", "ToRecipient", "ToChange"}}

\* the estimated_fee arguments: the 20 of test_calculate_waste, none, and
\* one above every excess of the calls
UtilFees == {0, 20, 950}

InitUtils ==
    /\ \E c \in UtilCandidates : inputs = <<c>>
    /\ options \in UtilOptions
    /\ can_return = [i \in Threads |-> {}]
    /\ DispatcherInit
    /\ out = <<"-", Pending>>

CallFee ==
    /\ out[1] = "-"
    /\ out' = <<"calculate_fee",
                calculate_fee(inputs[1].weight, options.target_feerate)>>
    /\ UNCHANGED <<inputs, options, can_return, spawned, pc, result, mutex,
                   best_result, joined, returned, ret>>

CallEffectiveValue ==
    /\ out[1] = "-"
    /\ out' = <<"effective_value",
                effective_value(inputs[1], options.target_feerate)>>
    /\ UNCHANGED <<inputs, options, can_return, spawned, pc, result, mutex,
                   best_result, joined, returned, ret>>

\* accumulated_value and accumulated_weight are those of the one candidate
CallWaste ==
    /\ out[1] = "-"
    /\ \E estimated_fee \in UtilFees :
          out' = <<"calculate_waste",
                   calculate_waste(options, inputs[1].value, inputs[1].weight,
                                   estimated_fee),
                   estimated_fee>>
    /\ UNCHANGED <<inputs, options, can_return, spawned, pc, result, mutex,
                   best_result, joined, returned, ret>>

NextUtils == CallFee \/ CallEffectiveValue \/ CallWaste

SpecUtils == InitUtils /\ [][NextUtils]_vars

(***************************************************************************)
(* Properties of utils.rs (specification SpecUtils)                        *)
(***************************************************************************)
\* C21: calculate_fee(weight, rate) returns NonPositiveFeeRate when
\* rate <= 0 (rate = 0 included), AbnormallyHighFeeRate when rate > 1000
\* (rate = 1000 is accepted), and otherwise Ok(f) where f is the least
\* integer with f >= weight * rate; fee(60, 5) = 300.
C21_CalculateFee ==
    out[1] = "calculate_fee" =>
        LET weight == inputs[1].weight
            rate == options.target_feerate
            f == out[2]
        IN  /\ rate.num <= 0 => f = ErrVal("NonPositiveFeeRate")
            /\ rate.num > 1000 * rate.den => f = ErrVal("AbnormallyHighFeeRate")
            /\ (rate.num > 0 /\ rate.num <= 1000 * rate.den) =>
                  /\ f.ok
                  /\ f.val * rate.den >= weight * rate.num
                  /\ (f.val - 1) * rate.den < weight * rate.num
            /\ (weight = 60 /\ rate = Rate(5, 1)) => f = OkVal(300)
            /\ rate = Rate(1000, 1) => f = OkVal(1000 * weight)

C21_Witness ==
    /\ out[1] = "calculate_fee"
    /\ inputs[1].weight = 60
    /\ options.target_feerate = Rate(5, 1)
    /\ out[2] = OkVal(300)

\* C22: for a valid rate effective_value(candidate, rate) is
\* max(0, candidate.value - fee(candidate.weight, rate)): never negative,
\* and 0 when the fee exceeds the value; for a rate <= 0 or > 1000 it is
\* the validation error of the fee function, unchanged.
C22_EffectiveValue ==
    out[1] = "effective_value" =>
        LET candidate == inputs[1]
            rate == options.target_feerate
            fee == calculate_fee(candidate.weight, rate)
            e == out[2]
        IN  /\ fee.ok =>
                  /\ e.ok
                  /\ e.val >= 0
                  /\ e.val = Max(0, candidate.value - fee.val)
                  /\ fee.val > candidate.value => e.val = 0
            /\ ~fee.ok =>
                  /\ e = fee
                  /\ e.err = (IF rate.num <= 0 THEN "NonPositiveFeeRate"
                              ELSE "AbnormallyHighFeeRate")

\* the first vector of test_effective_value: 100 - fee(101, 1.0) floors at 0
C22_Witness ==
    /\ out[1] = "effective_value"
    /\ inputs[1].value = 100
    /\ inputs[1].weight = 101
    /\ options.target_feerate = Rate(1, 1)
    /\ out[2] = OkVal(0)

C24_LongTermTermSubtracts ==
    (/\ out[1] = "calculate_waste"
     /\ ValidFeeRate(options)
     /\ options.long_term_feerate # None
     /\ inputs[1].weight > 0
     /\ LET t == options.target_feerate
            l == options.long_term_feerate[1]
        IN  t.num * l.den < l.num * t.den)
    => out[2] < calculate_waste([options EXCEPT !.long_term_feerate = None],
                                inputs[1].value, inputs[1].weight, out[3])

(***************************************************************************)
(* The calls of the recursive bnb (specification SpecBnb).  One step is    *)
(* one call of bnb as the recursion makes it: at a depth d, with a path    *)
(* of candidates taken from the first d of the sorted list and their       *)
(* effective values accumulated, and with what is left of the try budget.  *)
(* out holds the outcome of the call and the arguments it was entered      *)
(* with.                                                                   *)
(***************************************************************************)
\* the members of S in ascending order
Ascending(S, n) ==
    LET In(k) == k \in S
    IN  SelectSeq([k \in 1..n |-> k], In)

\* the arguments of a call at depth d whose path took the sorted
\* candidates at the positions S of 1..d
BnbEntry(sorted, target_feerate, S, d, tries) ==
    LET ks == Ascending(S, d)
    IN  [selected_inputs |-> [j \in 1..Len(ks) |-> sorted[ks[j]][1]],
         acc_eff_value |->
            SumSeq([j \in 1..Len(ks) |-> EffVal(sorted[ks[j]][2], target_feerate)]),
         depth |-> d,
         bnb_tries |-> tries]

\* bnb.rs 99-168: a call is made only below calls that expanded, so every
\* shorter prefix of its path was neither above the band nor a match
BnbEntries(ins, opts, tries) ==
    LET sorted == BnbSorted(ins)
        mp == MatchParameters(opts)
        E(S, d) == BnbEntry(sorted, opts.target_feerate, S, d, tries)
    IN  {E(S, d) : <<S, d>> \in
            {p \in (SUBSET (1..Len(ins))) \X (0..Len(ins)) :
                /\ p[1] \subseteq 1..p[2]
                /\ \A c \in 0..(p[2] - 1) :
                      LET a == E(p[1] \cap (1..c), c).acc_eff_value
                      IN  ~BnbOver(a, mp) /\ ~BnbMatch(a, mp)}}

\* what is left of the budget at a call: all of it (bnb.rs 37), or the last
\* few tries
BnbBudgets == {BnbTries, 0, 1, 2, 3}

InitBnb ==
    /\ \/ /\ inputs \in SeqsUpTo(AlgoPool, MaxInputs)
          /\ options \in {o \in AlgoOptions : FeeCheck(o.target_feerate).ok}
       \/ inputs = BnbSolutionInputs /\ options = BnbSolutionOptions
    /\ can_return = [i \in Threads |-> {}]
    /\ DispatcherInit
    /\ out = <<"-", Pending>>

CallBnb ==
    /\ out[1] = "-"
    /\ \E tries \in BnbBudgets :
       \E e \in BnbEntries(inputs, options, tries) :
       \E o \in bnb(BnbSorted(inputs), e.selected_inputs, e.acc_eff_value,
                    e.depth, e.bnb_tries, MatchParameters(options)) :
          out' = <<"bnb_call", o, e>>
    /\ UNCHANGED <<inputs, options, can_return, spawned, pc, result, mutex,
                   best_result, joined, returned, ret>>

NextBnb == CallBnb

SpecBnb == InitBnb /\ [][NextBnb]_vars

(***************************************************************************)
(* Properties of the recursive bnb (specification SpecBnb)                 *)
(***************************************************************************)
\* s is t followed by further elements
IsPrefix(s, t) == Len(s) <= Len(t) /\ SubSeq(t, 1, Len(s)) = s

\* C25: a call of bnb that returns no-match leaves the shared path
\* selected_inputs exactly as it was on entry; a call that returns a match
\* returns the path as it stands, which extends the path of entry by
\* distinct candidates only, and the effective values of the candidates on
\* it sum into the match band, so the path holds just the candidates whose
\* effective values were accumulated.
C25_BnbPathRollback ==
    out[1] = "bnb_call" =>
        LET o == out[2]
            e == out[3]
            mp == MatchParameters(options)
            sum == EffectiveSum(inputs, options, o.selected_inputs)
        IN  /\ o.ret = None => o.selected_inputs = e.selected_inputs
            /\ o.ret # None =>
                  /\ o.ret[1] = o.selected_inputs
                  /\ IsPrefix(e.selected_inputs, o.selected_inputs)
                  /\ Cardinality(Range(o.selected_inputs)) = Len(o.selected_inputs)
                  /\ sum >= mp.target_for_match
                  /\ sum <= mp.target_for_match + mp.match_range

\* a call that pushed candidates in both orders of its branches, found no
\* match below, and returned with the path of entry
C25_Witness ==
    /\ out[1] = "bnb_call"
    /\ out[2].ret = None
    /\ out[3].depth = 0
    /\ out[3].bnb_tries = BnbTries
    /\ Len(inputs) >= 2
    /\ out[2].bnb_tries <= BnbTries - 3
    /\ out[2].selected_inputs = out[3].selected_inputs

\* 2^n
RECURSIVE Pow2(_)
Pow2(n) == IF n = 0 THEN 1 ELSE 2 * Pow2(n - 1)

DeterminedByResults ==
    returned =>
        IF Succeeded # {}
        THEN /\ ret.ok
             /\ \E i \in Succeeded : ret = result[i]
             /\ \A i \in Succeeded : ret.waste <= result[i].waste
        ELSE /\ ~ret.ok
             /\ ret.err = IF \E i \in Threads : result[i].err = "InsufficientFunds"
                          THEN "InsufficientFunds" ELSE "NoSolutionFound"

\* a recorded success gives way only to a success of strictly lower waste
KeepsFirstOfEqual ==
    (best_result.result.ok /\ best_result' # best_result) =>
        /\ best_result'.result.ok
        /\ best_result'.result.waste < best_result.result.waste

\* C27: for the results the five algorithms gave, the waste select_coin
\* returns (on failure, the error kind) is the same under every order in
\* which the threads take the lock: it is the least waste of the successes,
\* or InsufficientFunds if no algorithm succeeded and one reported it, or
\* NoSolutionFound.  Of several successes of equal waste the one recorded
\* first stays: a recorded success is replaced only by a strictly lower
\* waste.
C27_InterleavingIndependence ==
    []DeterminedByResults /\ [][KeepsFirstOfEqual]_vars

\* select_coin returned one of two different selections of the same, least
\* waste
C27_Witness ==
    /\ returned /\ ret.ok
    /\ \E i, j \in Succeeded :
          /\ result[i] # result[j]
          /\ result[i].waste = ret.waste
          /\ result[j].waste = ret.waste

(***************************************************************************)
(* Properties of the algorithms, continued (specification SpecAlgo)        *)
(***************************************************************************)
\* Knapsack returned Ok with candidates that passed the filter, whose
\* effective values sum to at least adjusted_target, and with the waste of
\* that very set: the total the waste is computed from is the total of the
\* returned set
KnapsackCovers ==
    LET sel == out[2].selected_inputs
        adjusted_target == options.target_value + options.min_change_value
                             + Fee(options.base_weight, options.target_feerate)
        total == EffectiveSum(inputs, options, sel)
        w == SelectedWeight(inputs, sel)
    IN  /\ out[2].ok
        /\ \A k \in 1..Len(sel) : sel[k] + 1 \in FilteredPositions(inputs, options)
        /\ Cardinality(Range(sel)) = Len(sel)
        /\ total >= adjusted_target
        /\ out[2].waste = calculate_waste(options, total, w,
                                          Fee(w, options.target_feerate))

\* the effective values of the filtered candidates reach adjusted_target
KnapsackReachable ==
    EffectiveSumOver(inputs, options, FilteredPositions(inputs, options))
        >= options.target_value + options.min_change_value
             + Fee(options.base_weight, options.target_feerate)

IndicesOf(S, n) ==
    LET ks == Ascending(S, n)
    IN  [j \in 1..Len(ks) |-> ks[j] - 1]

\* some order of the candidates has a prefix at which SRD tests the bound
\* (a non-empty one, or the empty one of an empty list) that meets
\* target_value + min_change_value
\* + max(fee(accumulated_weight), min_absolute_fee); the candidates of a
\* prefix of some order are any set of candidates
SomePrefixMeets(ins, opts) ==
    \E S \in SUBSET (1..Len(ins)) :
        /\ S # {} \/ ins = <<>>
        /\ SelectedValue(ins, IndicesOf(S, Len(ins)))
             >= SufficiencyBound(ins, opts, IndicesOf(S, Len(ins)))

\* what the claim says of a call of select_coin_srd: whether the result is
\* Ok or InsufficientFunds is fixed by the candidates and options, whatever
\* the shuffle order: InsufficientFunds when no order has a prefix meeting
\* the bound, Ok when some order has one
SrdShuffleIndependent ==
    /\ out[2].ok \/ out[2] = ErrOut("InsufficientFunds")
    /\ out[2].ok <=> SomePrefixMeets(inputs, options)

\* no candidate is worth less than the fee of its own weight
NoDust(ins, opts) ==
    \A k \in 1..Len(ins) : ins[k].value >= Fee(ins[k].weight, opts.target_feerate)

\* C29 as stated: for fixed candidates and options (and a valid fee rate)
\* whether select_coin_srd returns Ok or InsufficientFunds is the same for
\* every shuffle order; InsufficientFunds is returned only when no ordering
\* of the candidates has a prefix meeting the bound.
C29_SrdShuffleIndependence_AsStated ==
    (Called("srd") /\ ValidFeeRate(options)) => SrdShuffleIndependent

\* C29 amended: the same, for candidates none of which is worth less than
\* the fee of its own weight.
C29_SrdShuffleIndependence ==
    (Called("srd") /\ ValidFeeRate(options) /\ NoDust(inputs, options))
        => SrdShuffleIndependent

\* SRD returned Ok for candidates of different values, where some orders
\* stop after one candidate and others need two
C29_Witness ==
    /\ Called("srd") /\ ValidFeeRate(options) /\ NoDust(inputs, options)
    /\ out[2].ok
    /\ Len(inputs) = 3
    /\ Len(out[2].selected_inputs) = 2
    /\ \E k \in 0..2 : SelectedValue(inputs, <<k>>)
                           >= SufficiencyBound(inputs, options, <<k>>)

\* C30: when some subset of the candidates has its effective values summing
\* into the match band (the candidate lists being small enough that the
\* budget of 1,000,000 tries cannot run out: at most 2^n - 1 calls expand),
\* select_coin_bnb returns Ok for every sequence of coin flips.
C30_BnbCompleteness ==
    (/\ Called("bnb") /\ ValidFeeRate(options)
     /\ Pow2(Len(inputs)) - 1 < 1000000
     /\ BandSubsets(inputs, options) # {})
        => out[2].ok

\* BNB found the only subset inside the band, which omits the candidate of
\* the highest value and takes two others
C30_Witness ==
    /\ Called("bnb") /\ out[2].ok
    /\ Len(inputs) = 3
    /\ Cardinality(BandSubsets(inputs, options)) = 1
    /\ Len(out[2].selected_inputs) = 2
    /\ \E k \in 1..3 :
          /\ k - 1 \notin Range(out[2].selected_inputs)
          /\ \A j \in 1..3 : inputs[k].value >= inputs[j].value

=============================================================================
